---------------------------- MODULE Spec2Model ----------------------------
(***************************************************************************)
(* Transcript chunking and enhancement pipeline of transcribe-generator.   *)
(*                                                                         *)
(* Strings are sequences of character symbols.  Three symbols stand for a  *)
(* run of lowercase letters: "word" is a run of 4, "page" a run of 400 and *)
(* "para" a run of 4000;                                                   *)
(* every other symbol is one character.                                    *)
(* String length (JavaScript's .length) is the sum of the widths.          *)
(***************************************************************************)
EXTENDS Integers, Sequences, FiniteSets, TLC

VARIABLES
    route,          \* which POST handler runs: "claude", "gemini", "geminiStream"
    env,            \* environment of the run: API key and audio input
    transcript,     \* the request's transcript text
    segments,       \* TranscriptSegment[]
    maxTokens,      \* createChunks' maxTokens argument
    chunks,         \* Chunk[]
    pc,             \* position of the handler
    i,              \* loop index of the chunk loop
    enhancedChunks, \* string[] of fragments
    calls,          \* the enhancer calls made so far, in issue order
    log,            \* what the handler did, in order
    response,       \* what the caller receives
    observer,       \* the reader of the response stream: "listening", "gone"
    other,          \* a second run of the route, suspended at an await
    job,            \* the transcribe route's handler and its polling loop
    client,         \* the streaming page's enhancement and its stream reader
    page            \* the page's state and its outstanding requests

vars == <<route, env, transcript, segments, maxTokens, chunks, pc, i,
          enhancedChunks, calls, log, response, observer, other,
          job, client, page>>

---------------------------------------------------------------------------
(* Bounds of the model *)

MaxSegs == 5          \* segments handed to createChunks
MaxSegTokens == 3     \* tokenCount of one such segment
MaxMaxTokens == 3     \* maxTokens handed to createChunks
MaxLines == 4         \* lines of a transcript handed to the parser
MaxParas == 3         \* speaker paragraphs of a transcript handed to a route
MaxDigits == 3        \* digits of one field of a timestamp
MaxRunParas == 1      \* speaker paragraphs of the first of two interleaved runs

---------------------------------------------------------------------------
(* Characters and strings *)

LF == "\n"
CR == "\r"
SP == " "

Upper == {"A", "B", "E", "K", "P", "R", "S"}
Digit == {"0", "1", "2", "3", "4", "5", "6", "7", "8", "9"}
WS == {SP, CR, LF}

\* .length of one symbol
Width(c) ==
    IF c = "para" THEN 4000
    ELSE IF c = "page" THEN 400
    ELSE IF c = "word" THEN 4
    ELSE 1

RECURSIVE StrLen(_)
StrLen(s) == IF s = <<>> THEN 0 ELSE Width(Head(s)) + StrLen(Tail(s))

RECURSIVE TrimStart(_)
TrimStart(s) ==
    IF s # <<>> /\ Head(s) \in WS THEN TrimStart(Tail(s)) ELSE s

RECURSIVE TrimEnd(_)
TrimEnd(s) ==
    IF s # <<>> /\ s[Len(s)] \in WS THEN TrimEnd(SubSeq(s, 1, Len(s) - 1)) ELSE s

\* String.prototype.trim
Trim(s) == TrimEnd(TrimStart(s))

\* split(/\r?\n/): cur is the piece being read
RECURSIVE SplitCRLF(_, _)
SplitCRLF(s, cur) ==
    IF s = <<>> THEN <<cur>>
    ELSE IF Head(s) = LF THEN <<cur>> \o SplitCRLF(Tail(s), <<>>)
    ELSE IF Head(s) = CR /\ Len(s) >= 2 /\ s[2] = LF
         THEN <<cur>> \o SplitCRLF(Tail(Tail(s)), <<>>)
    ELSE SplitCRLF(Tail(s), Append(cur, Head(s)))

\* split('\n')
RECURSIVE SplitLF(_, _)
SplitLF(s, cur) ==
    IF s = <<>> THEN <<cur>>
    ELSE IF Head(s) = LF THEN <<cur>> \o SplitLF(Tail(s), <<>>)
    ELSE SplitLF(Tail(s), Append(cur, Head(s)))

\* Array.prototype.join
RECURSIVE Join(_, _)
Join(parts, sep) ==
    IF parts = <<>> THEN <<>>
    ELSE IF Len(parts) = 1 THEN parts[1]
    ELSE parts[1] \o sep \o Join(Tail(parts), sep)

\* filter(line => line.trim())
NonBlank(line) == Trim(line) # <<>>

AllIn(s, S) == \A k \in 1..Len(s) : s[k] \in S

---------------------------------------------------------------------------
(* estimateTokens: Math.ceil(text.length / 4) *)

EstimateTokens(text) == (StrLen(text) + 3) \div 4

---------------------------------------------------------------------------
(* parseMarkdownTranscript of the shared chunking module *)

IsDigits(s) == s # <<>> /\ AllIn(s, Digit)

\* \d+:\d+:\d+ over the whole of t
IsTimestamp(t) ==
    \E a, b \in 1..Len(t) :
        /\ a < b
        /\ t[a] = ":"
        /\ t[b] = ":"
        /\ IsDigits(SubSeq(t, 1, a - 1))
        /\ IsDigits(SubSeq(t, a + 1, b - 1))
        /\ IsDigits(SubSeq(t, b + 1, Len(t)))

\* The ways /^([A-Z\s]*[A-Z])\s+(\d+:\d+:\d+)$/ matches line: group 1 is
\* line[1..p], the whitespace run is line[p+1..q], group 2 the rest.
HeaderSplits(line) ==
    {pq \in (1..Len(line)) \X (1..Len(line)) :
        /\ pq[1] < pq[2]
        /\ line[pq[1]] \in Upper
        /\ AllIn(SubSeq(line, 1, pq[1]), Upper \cup WS)
        /\ AllIn(SubSeq(line, pq[1] + 1, pq[2]), WS)
        /\ IsTimestamp(SubSeq(line, pq[2] + 1, Len(line)))}

\* cleanLine.match(...): <<>> for null, else <<group 1, group 2>>
SpeakerMatch(line) ==
    IF HeaderSplits(line) = {} THEN <<>>
    ELSE LET pq == CHOOSE x \in HeaderSplits(line) : TRUE
         IN  <<SubSeq(line, 1, pq[1]), SubSeq(line, pq[2] + 1, Len(line))>>

Segment(speaker, timestamp, text) ==
    [speaker |-> speaker, timestamp |-> timestamp, text |-> Trim(text),
     tokenCount |-> EstimateTokens(Trim(text))]

PushSegmentNoTextCheck(segs, speaker, timestamp, text) ==
    IF speaker # <<>>
    THEN Append(segs, Segment(speaker, timestamp, text))
    ELSE segs

\* if (currentSpeaker && currentText.trim()) segments.push({...})
PushSegment(segs, speaker, timestamp, text) ==
    IF speaker # <<>> /\ Trim(text) # <<>>
    THEN Append(segs, Segment(speaker, timestamp, text))
    ELSE segs

\* the for loop over lines and the final push
RECURSIVE ParseLoop(_, _, _, _, _)
ParseLoop(lines, speaker, timestamp, text, segs) ==
    IF lines = <<>> THEN PushSegment(segs, speaker, timestamp, text)
    ELSE LET cleanLine == Trim(Head(lines))
             m == SpeakerMatch(cleanLine)
         IN  IF m # <<>>
             THEN ParseLoop(Tail(lines), m[1], m[2], <<>>,
                            PushSegment(segs, speaker, timestamp, text))
             ELSE IF cleanLine # <<>> /\ speaker # <<>>
             THEN ParseLoop(Tail(lines), speaker, timestamp,
                            text \o cleanLine \o <<LF>>, segs)
             ELSE ParseLoop(Tail(lines), speaker, timestamp, text, segs)

parseMarkdownTranscript(markdown) ==
    ParseLoop(SelectSeq(SplitCRLF(markdown, <<>>), NonBlank),
              <<>>, <<>>, <<>>, <<>>)

---------------------------------------------------------------------------
(* parseMarkdownTranscript of the Claude enhance route *)

NoStar(s) == \A k \in 1..Len(s) : s[k] # "*"

\* The ways /^\*\*([^*]+)\*\*\s*\*([^*]+)\*/ matches a prefix of line: group 1
\* is line[3..a-1] and is closed by the stars at a and a+1, group 2 is
\* line[b+1..c-1] between the stars at b and c.
SpeakerCloses(line) ==
    {a \in 4..(Len(line) - 1) :
        /\ line[1] = "*"
        /\ line[2] = "*"
        /\ NoStar(SubSeq(line, 3, a - 1))
        /\ line[a] = "*"
        /\ line[a + 1] = "*"}

StampOpens(line, a) ==
    {b \in (a + 2)..Len(line) :
        line[b] = "*" /\ AllIn(SubSeq(line, a + 2, b - 1), WS)}

StampCloses(line, b) ==
    {c \in (b + 2)..Len(line) :
        line[c] = "*" /\ NoStar(SubSeq(line, b + 1, c - 1))}

BoldSplits(line) ==
    UNION {UNION {{<<a, b, c>> : c \in StampCloses(line, b)} :
                     b \in StampOpens(line, a)} :
              a \in SpeakerCloses(line)}

BoldMatch(line) ==
    IF BoldSplits(line) = {} THEN <<>>
    ELSE LET abc == CHOOSE x \in BoldSplits(line) : TRUE
         IN  <<SubSeq(line, 3, abc[1] - 1), SubSeq(line, abc[2] + 1, abc[3] - 1)>>

RECURSIVE ClaudeParseLoop(_, _, _, _, _)
ClaudeParseLoop(lines, speaker, timestamp, text, segs) ==
    IF lines = <<>> THEN PushSegment(segs, speaker, timestamp, text)
    ELSE LET line == Head(lines)
             m == BoldMatch(line)
         IN  IF m # <<>>
             THEN ClaudeParseLoop(Tail(lines), m[1], m[2], <<>>,
                                  PushSegment(segs, speaker, timestamp, text))
             ELSE IF Trim(line) # <<>> /\ speaker # <<>>
             THEN ClaudeParseLoop(Tail(lines), speaker, timestamp,
                                  text \o line \o <<LF>>, segs)
             ELSE ClaudeParseLoop(Tail(lines), speaker, timestamp, text, segs)

claudeParseMarkdownTranscript(markdown) ==
    ClaudeParseLoop(SelectSeq(SplitLF(markdown, <<>>), NonBlank),
                    <<>>, <<>>, <<>>, <<>>)

---------------------------------------------------------------------------
(* createChunks *)

ChunkEndsAtStart(currentChunk, currentTokens) ==
    [segments |-> currentChunk, totalTokens |-> currentTokens,
     startTime |-> currentChunk[1].timestamp,
     endTime |-> currentChunk[1].timestamp]

\* chunks.push({ segments, totalTokens, startTime, endTime })
Chunk(currentChunk, currentTokens) ==
    [segments |-> currentChunk, totalTokens |-> currentTokens,
     startTime |-> currentChunk[1].timestamp,
     endTime |-> currentChunk[Len(currentChunk)].timestamp]

OverflowsOffByOne(currentChunk, currentTokens, segment, maxTok) ==
    currentTokens + segment.tokenCount > maxTok + 1 /\ Len(currentChunk) > 0

OverflowsAtLimit(currentChunk, currentTokens, segment, maxTok) ==
    currentTokens + segment.tokenCount >= maxTok /\ Len(currentChunk) > 0

OverflowsIgnoresRunningTotal(currentChunk, currentTokens, segment, maxTok) ==
    segment.tokenCount > maxTok /\ Len(currentChunk) > 0

\* if (currentTokens + segment.tokenCount > maxTokens && currentChunk.length > 0)
Overflows(currentChunk, currentTokens, segment, maxTok) ==
    currentTokens + segment.tokenCount > maxTok /\ Len(currentChunk) > 0

NewChunkEmpty(segment) == <<>>

\* currentChunk = [segment]
NewChunk(segment) == <<segment>>

\* the for loop over segments and the final push
RECURSIVE ChunkLoop(_, _, _, _, _)
ChunkLoop(segs, maxTok, currentChunk, currentTokens, out) ==
    IF segs = <<>>
    THEN IF Len(currentChunk) > 0
         THEN Append(out, Chunk(currentChunk, currentTokens))
         ELSE out
    ELSE LET segment == Head(segs)
         IN  IF Overflows(currentChunk, currentTokens, segment, maxTok)
             THEN ChunkLoop(Tail(segs), maxTok, NewChunk(segment), segment.tokenCount,
                            Append(out, Chunk(currentChunk, currentTokens)))
             ELSE ChunkLoop(Tail(segs), maxTok, Append(currentChunk, segment),
                            currentTokens + segment.tokenCount, out)

createChunks(segs, maxTok) == ChunkLoop(segs, maxTok, <<>>, 0, <<>>)

---------------------------------------------------------------------------
(* formatChunkForClaude / formatChunkForGemini *)

RECURSIVE FormatLoopNoBlankLine(_)
FormatLoopNoBlankLine(segs) ==
    IF segs = <<>> THEN <<>>
    ELSE Head(segs).speaker \o <<SP>> \o Head(segs).timestamp \o <<SP>>
         \o Head(segs).text \o <<LF, LF>> \o FormatLoopNoBlankLine(Tail(segs))

\* formatted += `${segment.speaker} ${segment.timestamp}\n\n${segment.text}\n\n`
RECURSIVE FormatLoop(_)
FormatLoop(segs) ==
    IF segs = <<>> THEN <<>>
    ELSE Head(segs).speaker \o <<SP>> \o Head(segs).timestamp \o <<LF, LF>>
         \o Head(segs).text \o <<LF, LF>> \o FormatLoop(Tail(segs))

formatChunk(chunk) == Trim(FormatLoop(chunk.segments))

---------------------------------------------------------------------------
(* JavaScript values held by enhancedChunks: a string or undefined *)

Str(s) == [t |-> "string", s |-> s]
Undefined == [t |-> "undefined", s |-> <<>>]

\* truthiness of a string-or-undefined value
Truthy(v) == v.t = "string" /\ v.s # <<>>

\* what Array.prototype.join renders for an element
Rendered(v) == IF v.t = "string" THEN v.s ELSE <<>>

JoinFragmentsSingleLF(frags) ==
    Join([k \in 1..Len(frags) |-> Rendered(frags[k])], <<LF>>)

\* enhancedChunks.join('\n\n')
JoinFragments(frags) ==
    Join([k \in 1..Len(frags) |-> Rendered(frags[k])], <<LF, LF>>)

---------------------------------------------------------------------------
(* Inputs of the specifications *)

DigitOf == <<"1", "2", "3", "4", "5", "6", "7", "8", "9">>

\* the timestamp of the k-th header of an input
Stamp(k) == <<"0", ":", "0", "0", ":", "0", DigitOf[k]>>

\* segments handed to createChunks: the k-th has tokens[k] tokens
SegmentOf(k, n) ==
    Segment(<<"A">>, Stamp(k), [j \in 1..n |-> "word"])

TokenSeqs(maxLen) == UNION {[1..m -> 1..MaxSegTokens] : m \in 0..maxLen}

SegmentSeqs(maxLen) ==
    {[k \in 1..Len(tokens) |-> SegmentOf(k, tokens[k])] : tokens \in TokenSeqs(maxLen)}

---------------------------------------------------------------------------
(* createChunks applied to bounded inputs *)

\* no response yet
NoResponse ==
    [kind |-> "none", status |-> 0, error |-> "", enhanced_transcript |-> <<>>,
     chunks_processed |-> 0, total_segments |-> 0, events |-> <<>>, closed |-> FALSE]

\* before any request to the transcribe route, and before the page is used
NoJob == [pc |-> "none"]
NoClient == [pc |-> "none"]
NoPage == [pc |-> "none"]

\* no second run
NoRun ==
    [route |-> "none", env |-> [key |-> TRUE, audio |-> "none"],
     transcript |-> <<>>, segments |-> <<>>, maxTokens |-> 0, chunks |-> <<>>,
     pc |-> "none", i |-> 0, enhancedChunks |-> <<>>, calls |-> <<>>,
     log |-> <<>>, response |-> NoResponse, observer |-> "listening"]

Idle ==
    /\ route = "none"
    /\ env = [key |-> TRUE, audio |-> "none"]
    /\ i = 0
    /\ enhancedChunks = <<>>
    /\ calls = <<>>
    /\ log = <<>>
    /\ response = NoResponse
    /\ observer = "listening"
    /\ other = NoRun
    /\ job = NoJob
    /\ client = NoClient
    /\ page = NoPage

\* createChunks(segments, 2000): the maxTokens of the routes
RouteMaxTokens == 2000

\* segments of 1200, 900 and 1100 tokens: texts of 4800, 3600 and 4400
\* letters
ScenarioSegments ==
    << Segment(<<"A">>, Stamp(1), <<"para", "page", "page">>),
       Segment(<<"A">>, Stamp(2),
               <<"page", "page", "page", "page", "page", "page", "page", "page",
                 "page">>),
       Segment(<<"A">>, Stamp(3), <<"para", "page">>) >>

InitChunks ==
    /\ Idle
    /\ transcript = <<>>
    /\ \/ /\ segments \in SegmentSeqs(MaxSegs)
          /\ maxTokens \in 1..MaxMaxTokens
       \/ /\ segments = ScenarioSegments
          /\ maxTokens = RouteMaxTokens
    /\ chunks = <<>>
    /\ pc = "segments"

CreateChunksCall ==
    /\ pc = "segments"
    /\ chunks' = createChunks(segments, maxTokens)
    /\ pc' = "chunked"
    /\ UNCHANGED <<route, env, transcript, segments, maxTokens, i,
                   enhancedChunks, calls, log, response, observer, other,
                   job, client, page>>

NextChunks == CreateChunksCall

SpecChunks == InitChunks /\ [][NextChunks]_vars

RECURSIVE ConcatSegments(_)
ConcatSegments(cs) ==
    IF cs = <<>> THEN <<>> ELSE Head(cs).segments \o ConcatSegments(Tail(cs))

\* C1: concatenating the segments lists of the chunks returned by
\* createChunks(S, maxTokens), in chunk order, gives S exactly.
C1_Partition ==
    pc = "chunked" => ConcatSegments(chunks) = segments

C1_Witness ==
    /\ pc = "chunked"
    /\ Len(chunks) >= 3
    /\ \E c \in 1..Len(chunks) : Len(chunks[c].segments) >= 2

\* C2: every chunk has totalTokens <= maxTokens, unless it holds exactly one
\* segment whose own tokenCount is greater than maxTokens.
C2_TokenBound ==
    pc = "chunked" =>
        \A c \in 1..Len(chunks) :
            \/ chunks[c].totalTokens <= maxTokens
            \/ /\ Len(chunks[c].segments) = 1
               /\ chunks[c].segments[1].tokenCount > maxTokens

C2_Witness ==
    /\ pc = "chunked"
    /\ \E c \in 1..Len(chunks) :
          Len(chunks[c].segments) = 1 /\ chunks[c].totalTokens > maxTokens
    /\ \E c \in 1..Len(chunks) :
          Len(chunks[c].segments) >= 2 /\ chunks[c].totalTokens = maxTokens

Oversized(k) == segments[k].tokenCount > maxTokens

\* C9: a segment whose own tokenCount exceeds maxTokens is kept whole and is
\* the only segment of its chunk, wherever it occurs in the input.
C9_OversizedAlone ==
    pc = "chunked" =>
        \A k \in 1..Len(segments) :
            Oversized(k) =>
                /\ \E c \in 1..Len(chunks) : chunks[c].segments = <<segments[k]>>
                /\ \A c \in 1..Len(chunks) :
                      (\E j \in 1..Len(chunks[c].segments) :
                            chunks[c].segments[j] = segments[k])
                      => Len(chunks[c].segments) = 1

C9_Witness ==
    /\ pc = "chunked"
    /\ Len(segments) >= 4
    /\ Oversized(1)
    /\ Oversized(Len(segments))
    /\ \E k \in 2..(Len(segments) - 1) :
          Oversized(k) /\ ~Oversized(k - 1) /\ segments[k - 1].tokenCount >= 1
    /\ \E k \in 2..(Len(segments) - 1) : Oversized(k) /\ ~Oversized(k + 1)

\* the token counts of the segments of each chunk
TokenCounts(cs) ==
    [c \in 1..Len(cs) |->
        [j \in 1..Len(cs[c].segments) |-> cs[c].segments[j].tokenCount]]

\* C18: the packer splits on strict excess only: for consecutive chunks c
\* and d, c.totalTokens plus the tokenCount of d's first segment exceeds
\* maxTokens, so a segment that brings the total to exactly maxTokens stays;
\* token counts [1200, 900, 1100] at 2000 give [{1200}, {900, 1100}].
C18_GreedyMaximal ==
    pc = "chunked" =>
        /\ \A c \in 1..(Len(chunks) - 1) :
              chunks[c].totalTokens + chunks[c + 1].segments[1].tokenCount > maxTokens
        /\ (segments = ScenarioSegments /\ maxTokens = RouteMaxTokens) =>
              TokenCounts(chunks) = << <<1200>>, <<900, 1100>> >>

C18_Witness ==
    /\ pc = "chunked"
    /\ segments = ScenarioSegments
    /\ maxTokens = RouteMaxTokens
    /\ Len(chunks) = 2
    /\ chunks[2].totalTokens = maxTokens
    /\ Len(chunks[2].segments) = 2

RECURSIVE SumTokens(_)
SumTokens(segs) ==
    IF segs = <<>> THEN 0 ELSE Head(segs).tokenCount + SumTokens(Tail(segs))

\* C19: every chunk has at least one segment, totalTokens the sum of its
\* segments' tokenCount, startTime its first segment's timestamp and endTime
\* its last segment's timestamp; no segments give no chunks.
C19_ChunkShape ==
    pc = "chunked" =>
        /\ \A c \in 1..Len(chunks) :
              /\ Len(chunks[c].segments) >= 1
              /\ chunks[c].totalTokens = SumTokens(chunks[c].segments)
              /\ chunks[c].startTime = chunks[c].segments[1].timestamp
              /\ chunks[c].endTime =
                     chunks[c].segments[Len(chunks[c].segments)].timestamp
        /\ segments = <<>> => chunks = <<>>

C19_Witness ==
    /\ pc = "chunked"
    /\ Len(chunks) >= 2
    /\ Len(chunks[2].segments) = 3
    /\ chunks[2].startTime = Stamp(2)
    /\ chunks[2].endTime = Stamp(4)
    /\ chunks[2].totalTokens = 3

---------------------------------------------------------------------------
(* parseMarkdownTranscript applied to bounded inputs *)

\* the lines a transcript may have at line k
LinePool(k) ==
    { <<"A", SP>> \o Stamp(k),                   \* header
      <<SP, "B", SP, SP>> \o Stamp(k) \o <<SP>>,  \* header with padding
      <<"h", SP>> \o Stamp(k),                   \* lowercase label: no header
      <<"word", CR>>,                            \* text, CRLF line ending
      <<SP, "word", SP, "h", SP>>,               \* text with padding
      <<SP>> }                                   \* blank

RECURSIVE LineSeqs(_)
LineSeqs(n) ==
    IF n = 0 THEN {<<>>}
    ELSE {Append(ls, l) : ls \in LineSeqs(n - 1), l \in LinePool(n)}

ParserInputs(maxLen) ==
    {Join(ls, <<LF>>) : ls \in UNION {LineSeqs(n) : n \in 0..maxLen}}

InitParse ==
    /\ Idle
    /\ transcript \in ParserInputs(MaxLines)
    /\ segments = <<>>
    /\ maxTokens = 0
    /\ chunks = <<>>
    /\ pc = "markdown"

ParseCall ==
    /\ pc = "markdown"
    /\ segments' = parseMarkdownTranscript(transcript)
    /\ pc' = "parsed"
    /\ UNCHANGED <<route, env, transcript, maxTokens, chunks, i,
                   enhancedChunks, calls, log, response, observer, other,
                   job, client, page>>

NextParse == ParseCall

SpecParse == InitParse /\ [][NextParse]_vars

\* the non-blank lines of the input, and which of them are speaker headers
InputLines == SelectSeq(SplitCRLF(transcript, <<>>), NonBlank)
IsHeaderLine(h) == SpeakerMatch(Trim(InputLines[h])) # <<>>
HeaderStamp(h) == SpeakerMatch(Trim(InputLines[h]))[2]
HeaderWithoutText(h) ==
    IsHeaderLine(h) /\ (h = Len(InputLines) \/ IsHeaderLine(h + 1))

\* C10: every emitted segment has a non-empty text with no leading or
\* trailing whitespace, and a header directly followed by another header or
\* by the end of the input gives no segment.
C10_TextTrimmed ==
    pc = "parsed" =>
        /\ \A k \in 1..Len(segments) :
              /\ segments[k].text # <<>>
              /\ segments[k].text[1] \notin WS
              /\ segments[k].text[Len(segments[k].text)] \notin WS
        /\ \A h \in 1..Len(InputLines) :
              HeaderWithoutText(h) =>
                  \A k \in 1..Len(segments) : segments[k].timestamp # HeaderStamp(h)

C10_Witness ==
    /\ pc = "parsed"
    /\ Len(InputLines) = 4
    /\ HeaderWithoutText(3)
    /\ HeaderWithoutText(4)
    /\ Len(segments) = 1
    /\ InputLines[2] = <<SP, "word", SP, "h", SP>>
    /\ segments[1].text = <<"word", SP, "h">>

---------------------------------------------------------------------------
(* parseMarkdownTranscript applied to header candidates: one candidate     *)
(* line followed by one line of text                                       *)

\* a timestamp field of n digits
Field(n) == [j \in 1..n |-> "0"]

\* a timestamp with h, m and s digits of hours, minutes and seconds
StampOfWidths(h, m, s) == Field(h) \o <<":">> \o Field(m) \o <<":">> \o Field(s)

\* speaker labels: uppercase, uppercase words, mixed case, numeric, with a
\* carriage return inside
Labels == { <<"A">>, <<"A", SP, "B">>, <<"A", "h">>, <<"1">>, <<"A", CR, "B">> }

\* what stands between the label and the timestamp
Gaps == { <<SP>>, <<SP, SP>>, <<>> }

\* what follows the timestamp on the line
Rests == { <<>>, <<SP, "h">> }

HeaderCandidates(maxDigits) ==
    {label \o gap \o StampOfWidths(h, m, s) \o rest :
        label \in Labels, gap \in Gaps, rest \in Rests,
        h \in 1..maxDigits, m \in 1..maxDigits, s \in 1..maxDigits}

HeaderInputs(maxDigits) ==
    {line \o <<LF, "word">> : line \in HeaderCandidates(maxDigits)}

InitHeaders ==
    /\ Idle
    /\ transcript \in HeaderInputs(MaxDigits)
    /\ segments = <<>>
    /\ maxTokens = 0
    /\ chunks = <<>>
    /\ pc = "markdown"

SpecHeaders == InitHeaders /\ [][NextParse]_vars

\* the timestamp form of the written pattern: H+:MM:SS
IsStatedTimestamp(t) ==
    /\ Len(t) >= 7
    /\ IsDigits(SubSeq(t, 1, Len(t) - 6))
    /\ t[Len(t) - 5] = ":"
    /\ IsDigits(SubSeq(t, Len(t) - 4, Len(t) - 3))
    /\ t[Len(t) - 2] = ":"
    /\ IsDigits(SubSeq(t, Len(t) - 1, Len(t)))

\* the written speaker-header pattern: a run of uppercase letters and
\* spaces ending in an uppercase letter, whitespace, H+:MM:SS, nothing else
IsStatedHeader(line) ==
    \E p \in 1..Len(line), q \in 1..Len(line) :
        /\ p < q
        /\ AllIn(SubSeq(line, 1, p), Upper \cup {SP})
        /\ line[p] \in Upper
        /\ AllIn(SubSeq(line, p + 1, q), WS)
        /\ IsStatedTimestamp(SubSeq(line, q + 1, Len(line)))

\* C11: a line is classified as a speaker header (it opens a segment) if
\* and only if it has the written pattern: uppercase letters and spaces
\* ending in an uppercase letter, whitespace, a timestamp of any number of
\* hour digits and exactly two minute and two second digits, nothing else.
C11_HeaderIffStated ==
    (pc = "parsed" /\ Len(InputLines) = 2) =>
        /\ IsHeaderLine(1) <=> IsStatedHeader(Trim(InputLines[1]))
        /\ Len(segments) = 1 <=> IsStatedHeader(Trim(InputLines[1]))

\* the input without its first k lines
RawLines == SplitCRLF(transcript, <<>>)
DropLines(k) == Join(SubSeq(RawLines, k + 1, Len(RawLines)), <<LF>>)

\* the first k lines of the input hold no line of the written header pattern
NoStatedHeaderIn(k) == \A h \in 1..k : ~IsStatedHeader(Trim(RawLines[h]))

\* C12: lines before the first speaker header are discarded: for every
\* prefix P of lines without a speaker-header line, parse(P followed by X)
\* equals parse(X), so the lines of P appear in no segment.
C12_PreambleDiscarded ==
    pc = "parsed" =>
        \A k \in 0..Len(RawLines) :
            NoStatedHeaderIn(k) => parseMarkdownTranscript(DropLines(k)) = segments

\* the (speaker, timestamp, text) triples of a segment sequence
Triples(segs) ==
    [k \in 1..Len(segs) |-> <<segs[k].speaker, segs[k].timestamp, segs[k].text>>]

\* the formatted chunks of segs at maxTok, joined as the routes join them
FormatAll(segs, maxTok) ==
    Join([c \in 1..Len(createChunks(segs, maxTok)) |->
             formatChunk(createChunks(segs, maxTok)[c])], <<LF, LF>>)

\* C13: parsing the formatted chunks of parse(x), joined, gives the same
\* (speaker, timestamp, text) triples in the same order as parse(x).
C13_RoundTrip ==
    pc = "parsed" =>
        \A m \in 1..MaxMaxTokens :
            Triples(parseMarkdownTranscript(FormatAll(segments, m))) = Triples(segments)

C13_Witness ==
    /\ pc = "parsed"
    /\ Len(segments) = 2
    /\ Len(createChunks(segments, 1)) = 2
    /\ Len(createChunks(segments, 3)) = 1
    /\ FormatAll(segments, 1) # transcript
    /\ segments[2].speaker = <<"B">>
    /\ segments[1].text = <<"word", SP, "h">>

\* The segments the input lines stand for when H says which lines are
\* speaker headers: one for each header with a body, the body being the
\* lines up to the next header or the end.
BodyEnd(H(_), h) ==
    IF \E g \in (h + 1)..Len(InputLines) : H(g)
    THEN (CHOOSE g \in (h + 1)..Len(InputLines) :
              H(g) /\ \A f \in (h + 1)..(g - 1) : ~H(f)) - 1
    ELSE Len(InputLines)

BodyText(H(_), h) ==
    Join([k \in 1..(BodyEnd(H, h) - h) |-> Trim(InputLines[h + k])], <<LF>>)

SegmentAt(H(_), h) ==
    [speaker |-> SpeakerMatch(Trim(InputLines[h]))[1],
     timestamp |-> SpeakerMatch(Trim(InputLines[h]))[2],
     text |-> BodyText(H, h),
     tokenCount |-> (StrLen(BodyText(H, h)) + 3) \div 4]

RECURSIVE SegmentsFrom(_, _)
SegmentsFrom(H(_), h) ==
    IF h > Len(InputLines) THEN <<>>
    ELSE IF H(h) /\ BodyEnd(H, h) > h
    THEN <<SegmentAt(H, h)>> \o SegmentsFrom(H, h + 1)
    ELSE SegmentsFrom(H, h + 1)

StatedHeaderAt(h) == IsStatedHeader(Trim(InputLines[h]))

\* C20: the parser returns, in input order, one segment for each speaker
\* header with at least one non-blank non-header line before the next
\* header or the end: speaker and timestamp of the header, text the
\* trimmed lines joined by a newline, tokenCount ceil(length of text / 4).
C20_SegmentPerHeader ==
    pc = "parsed" => segments = SegmentsFrom(StatedHeaderAt, 1)

---------------------------------------------------------------------------
(* The enhance routes: POST of the Claude route, of the Gemini route and   *)
(* of the streaming Gemini route.  An action is what a handler does        *)
(* between two awaits.                                                     *)

Routes == {"claude", "gemini", "geminiStream"}

\* the audio input of a request: absent, not downloadable, usable (inline
\* under 20 MB, or uploaded), 20 MB or more and the upload throws
AudioStates(r) ==
    IF r = "claude" THEN {"none"}
    ELSE IF r = "gemini" THEN {"missing", "usable", "uploadFails"}
    ELSE {"missing", "unreachable", "usable", "uploadFails"}

\* transcripts handed to a route: paragraphs of a header and a body, in
\* the header style of formatChunkForClaude or in markdown bold
Header(style, k) ==
    IF style = "bold"
    THEN <<"*", "*", "A", "*", "*", SP, "*">> \o Stamp(k) \o <<"*">>
    ELSE <<"A", SP>> \o Stamp(k)

Body(size) == IF size = "big" THEN <<"para", "para">> ELSE <<"word">>

BuildTranscript(style, sizes) ==
    Join([k \in 1..Len(sizes) |->
             Header(style, k) \o <<LF, LF>> \o Body(sizes[k])], <<LF, LF>>)

SizeSeqs(maxLen) == UNION {[1..n -> {"big", "small"}] : n \in 0..maxLen}

HandlerInputs(maxLen) ==
    {BuildTranscript(style, sizes) :
        style \in {"plain", "bold"}, sizes \in SizeSeqs(maxLen)}

\* NextResponse.json(...) and the server-sent events of the stream
ErrorResponse(status, message) ==
    [NoResponse EXCEPT !.kind = "error", !.status = status, !.error = message]

DocumentResponse(doc, nChunks, nSegments) ==
    [NoResponse EXCEPT !.kind = "document", !.status = 200,
                       !.enhanced_transcript = doc, !.chunks_processed = nChunks,
                       !.total_segments = nSegments]

StreamResponse(events, closed) ==
    [NoResponse EXCEPT !.kind = "stream", !.status = 200, !.events = events,
                       !.closed = closed]

NoEvent ==
    [type |-> "none", completed |-> 0, total |-> 0, enhanced_transcript |-> <<>>,
     chunks_processed |-> 0, total_segments |-> 0, error |-> ""]

ProgressEventSwapped(completed, total) ==
    [NoEvent EXCEPT !.type = "progress", !.completed = total, !.total = completed]

ProgressEvent(completed, total) ==
    [NoEvent EXCEPT !.type = "progress", !.completed = completed, !.total = total]

CompleteEvent(doc, nChunks, nSegments) ==
    [NoEvent EXCEPT !.type = "complete", !.enhanced_transcript = doc,
                    !.chunks_processed = nChunks, !.total_segments = nSegments]

ErrorEvent(message) == [NoEvent EXCEPT !.type = "error", !.error = message]

Step(ev, k) == [ev |-> ev, k |-> k]

\* the parser each route defines for itself
RouteParse(r, markdown) ==
    IF r = "claude" THEN claudeParseMarkdownTranscript(markdown)
    ELSE parseMarkdownTranscript(markdown)

NoSegmentsNever(segs) == FALSE

\* if (segments.length === 0)
NoSegments(segs) == Len(segs) = 0

---------------------------------------------------------------------------
(* The enhancer *)

\* texts an enhancer may answer a chunk with: nothing, or a rewrite
Replies(arg, chunk) == {<<>>, <<"E", SP>> \o chunk.startTime}

Returned(v) == [status |-> "returned", value |-> v, error |-> ""]
Threw(message) == [status |-> "threw", value |-> Undefined, error |-> message]

\* how one call of enhanceChunkWithClaude, or of ai.models.generateContent
\* followed by response.text, may end
Outcomes(r, key, arg, chunk) ==
    IF r = "claude"
    THEN IF ~key
         THEN {Threw("Claude API key not configured")}
         ELSE {Returned(Str(t)) : t \in Replies(arg, chunk)}
              \cup {Returned(Undefined),           \* content[0] has no text
                    Threw("Claude API error"),    \* !response.ok
                    Threw("TypeError")}           \* no content[0]
    ELSE {Returned(Str(t)) : t \in Replies(arg, chunk)}
         \cup {Returned(Undefined),                \* response.text undefined
               Threw("Gemini API error")}

\* what is pushed to enhancedChunks when the call has ended
Fragment(r, outcome, formattedChunk) ==
    IF outcome.status = "threw" THEN Str(formattedChunk)
    ELSE IF r = "claude" THEN outcome.value
    ELSE IF Truthy(outcome.value) THEN outcome.value
    ELSE Str(formattedChunk)

Unshift(frags, v) == <<v>> \o frags

\* enhancedChunks.push(...)
Push(frags, v) == Append(frags, v)

CallFor(k, cks) ==
    [chunk |-> k, arg |-> formatChunk(cks[k + 1]), status |-> "pending",
     value |-> Undefined, error |-> ""]

IssueAllCalls(k, cks) == [j \in 1..(Len(cks) - k) |-> CallFor(k + j - 1, cks)]

\* const enhanced = await enhance(formattedChunk): the calls issued on
\* entering iteration k
IssueCalls(k, cks) == <<CallFor(k, cks)>>

NeedsDelayAfterEvery(k, n) == k < n

\* if (i < chunks.length - 1) await new Promise(... setTimeout ...)
NeedsDelay(k, n) == k < n - 1

---------------------------------------------------------------------------
(* The handlers *)

Init ==
    /\ route \in Routes
    /\ env \in UNION {[key : BOOLEAN, audio : AudioStates(r)] : r \in {route}}
    /\ transcript \in HandlerInputs(MaxParas)
    /\ segments = <<>>
    /\ maxTokens = RouteMaxTokens
    /\ chunks = <<>>
    /\ pc = "request"
    /\ i = 0
    /\ enhancedChunks = <<>>
    /\ calls = <<>>
    /\ log = <<>>
    /\ response = NoResponse
    /\ observer = "listening"
    /\ other = NoRun
    /\ job = NoJob
    /\ client = NoClient
    /\ page = NoPage

\* return NextResponse.json({ error }, { status })
Abort(status, message) ==
    /\ response' = ErrorResponse(status, message)
    /\ log' = Append(log, Step("respond", 0))
    /\ pc' = "done"
    /\ UNCHANGED <<i, enhancedChunks, calls>>

\* where the handler stands at its next await, or at its end
Paused(k, frags, cs, lg, resp, at) ==
    [i |-> k, enhancedChunks |-> frags, calls |-> cs, log |-> lg,
     response |-> resp, pc |-> at]

\* The loop test at index k and what follows it up to the next await: the
\* next iteration's call, or the join and the answer.  In the stream route
\* controller.enqueue throws once the reader is gone: inside the try the
\* catch pushes the formatted chunk, after the loop the exception leaves
\* start().
RECURSIVE LoopFrom(_, _, _, _, _, _, _)
LoopFrom(k, cks, segs, frags, cs, lg, evs) ==
    IF k < Len(cks)
    THEN IF route = "geminiStream" /\ observer = "gone"
         THEN LET fallback == Push(frags, Str(formatChunk(cks[k + 1])))
                  lg2 == lg \o <<Step("progressFails", k), Step("push", k)>>
              IN  IF NeedsDelay(k, Len(cks))
                  THEN Paused(k, fallback, cs, lg2, StreamResponse(evs, FALSE),
                              "delay")
                  ELSE LoopFrom(k + 1, cks, segs, fallback, cs, lg2, evs)
         ELSE Paused(k, frags, cs \o IssueCalls(k, cks),
                     lg \o (IF route = "geminiStream"
                            THEN <<Step("progress", k)>> ELSE <<>>)
                        \o <<Step("call", k)>>,
                     IF route = "geminiStream"
                     THEN StreamResponse(
                              Append(evs, ProgressEvent(k, Len(cks))), FALSE)
                     ELSE response,
                     "awaiting")
    ELSE IF route = "geminiStream"
         THEN IF observer = "gone"
              THEN Paused(k, frags, cs,
                          lg \o <<Step("completeFails", k), Step("errorFails", k)>>,
                          StreamResponse(evs, FALSE), "done")
              ELSE Paused(k, frags, cs,
                          lg \o <<Step("complete", k), Step("close", k)>>,
                          StreamResponse(
                              Append(evs, CompleteEvent(JoinFragments(frags),
                                                        Len(cks), Len(segs))),
                              TRUE),
                          "done")
         ELSE Paused(k, frags, cs, Append(lg, Step("respond", k)),
                     DocumentResponse(JoinFragments(frags), Len(cks), Len(segs)),
                     "done")

Continue(k, cks, segs, frags, cs, lg, evs) ==
    LET next == LoopFrom(k, cks, segs, frags, cs, lg, evs)
    IN  /\ i' = next.i
        /\ enhancedChunks' = next.enhancedChunks
        /\ calls' = next.calls
        /\ log' = next.log
        /\ response' = next.response
        /\ pc' = next.pc

\* POST of the Claude route, up to the first enhanceChunkWithClaude call
ClaudeReceive ==
    /\ pc = "request"
    /\ route = "claude"
    /\ LET segs == RouteParse(route, transcript)
           cks == createChunks(segs, maxTokens)
       IN  IF transcript = <<>>
           THEN /\ Abort(400, "No transcript provided")
                /\ UNCHANGED <<segments, chunks>>
           ELSE IF NoSegments(segs)
           THEN /\ Abort(400, "Could not parse transcript segments")
                /\ segments' = segs
                /\ UNCHANGED chunks
           ELSE /\ segments' = segs
                /\ chunks' = cks
                /\ Continue(0, cks, segs, <<>>, <<>>, log, <<>>)
    /\ UNCHANGED <<route, env, transcript, maxTokens, observer, other,
                   job, client, page>>

\* POST of the Gemini route, up to the first generateContent call
GeminiReceive ==
    /\ pc = "request"
    /\ route = "gemini"
    /\ LET segs == RouteParse(route, transcript)
           cks == createChunks(segs, maxTokens)
       IN  IF transcript = <<>> \/ env.audio = "missing"
           THEN /\ Abort(400, "Both transcript and audio file are required")
                /\ UNCHANGED <<segments, chunks>>
           ELSE IF NoSegments(segs)
           THEN /\ Abort(400, "Could not parse transcript segments")
                /\ segments' = segs
                /\ UNCHANGED chunks
           ELSE IF ~env.key
           THEN /\ Abort(500, "Gemini API key not configured")
                /\ segments' = segs
                /\ chunks' = cks
           ELSE IF env.audio = "uploadFails"
           THEN /\ Abort(500, "upload failed")
                /\ segments' = segs
                /\ chunks' = cks
           ELSE /\ segments' = segs
                /\ chunks' = cks
                /\ Continue(0, cks, segs, <<>>, <<>>, log, <<>>)
    /\ UNCHANGED <<route, env, transcript, maxTokens, observer, other,
                   job, client, page>>

\* POST of the streaming Gemini route and the start of its stream, up to
\* the first generateContent call
GeminiStreamReceive ==
    /\ pc = "request"
    /\ route = "geminiStream"
    /\ LET segs == RouteParse(route, transcript)
           cks == createChunks(segs, maxTokens)
           starting == <<ProgressEvent(0, Len(cks))>>
       IN  IF transcript = <<>> \/ env.audio = "missing"
           THEN /\ Abort(400, "Both transcript and audio URL are required")
                /\ UNCHANGED <<segments, chunks>>
           ELSE IF env.audio = "unreachable"
           THEN /\ Abort(500, "Failed to download audio file")
                /\ UNCHANGED <<segments, chunks>>
           ELSE IF NoSegments(segs)
           THEN /\ Abort(400, "Could not parse transcript segments")
                /\ segments' = segs
                /\ UNCHANGED chunks
           ELSE IF ~env.key
           THEN /\ Abort(500, "Gemini API key not configured")
                /\ segments' = segs
                /\ chunks' = cks
           ELSE IF env.audio = "uploadFails"
           THEN /\ response' = StreamResponse(
                                   Append(starting, ErrorEvent("upload failed")), TRUE)
                /\ log' = log \o <<Step("progress", 0), Step("error", 0),
                                   Step("close", 0)>>
                /\ pc' = "done"
                /\ segments' = segs
                /\ chunks' = cks
                /\ UNCHANGED <<i, enhancedChunks, calls>>
           ELSE /\ segments' = segs
                /\ chunks' = cks
                /\ Continue(0, cks, segs, <<>>, <<>>,
                            Append(log, Step("progress", 0)), starting)
    /\ UNCHANGED <<route, env, transcript, maxTokens, observer, other,
                   job, client, page>>

\* The awaited enhancer call of iteration i ends: the fragment is pushed,
\* then the pacing delay starts or the loop goes on.
CallSettles ==
    /\ pc = "awaiting"
    /\ \E c \in 1..Len(calls) :
          /\ calls[c].chunk = i
          /\ calls[c].status = "pending"
          /\ \E o \in Outcomes(route, env.key, calls[c].arg, chunks[i + 1]) :
                LET cs == [calls EXCEPT ![c] =
                              [@ EXCEPT !.status = o.status, !.value = o.value,
                                        !.error = o.error]]
                    frags == Push(enhancedChunks,
                                  Fragment(route, o, formatChunk(chunks[i + 1])))
                    lg == log \o <<Step("settle", i), Step("push", i)>>
                IN  IF NeedsDelay(i, Len(chunks))
                    THEN /\ pc' = "delay"
                         /\ enhancedChunks' = frags
                         /\ calls' = cs
                         /\ log' = lg
                         /\ UNCHANGED <<i, response>>
                    ELSE Continue(i + 1, chunks, segments, frags, cs, lg,
                                  response.events)
    /\ UNCHANGED <<route, env, transcript, segments, maxTokens, chunks,
                   observer, other,
                   job, client, page>>

\* The pacing delay of iteration i is over: i++ and the loop goes on.
DelayElapses ==
    /\ pc = "delay"
    /\ Continue(i + 1, chunks, segments, enhancedChunks, calls,
                Append(log, Step("delay", i)), response.events)
    /\ UNCHANGED <<route, env, transcript, segments, maxTokens, chunks,
                   observer, other,
                   job, client, page>>

Next ==
    \/ ClaudeReceive
    \/ GeminiReceive
    \/ GeminiStreamReceive
    \/ CallSettles
    \/ DelayElapses

Spec == Init /\ [][Next]_vars

---------------------------------------------------------------------------
(* Properties of the enhance routes *)

N == Len(chunks)

\* the run went through every chunk and answered
Completed == pc = "done" /\ N >= 1 /\ Len(calls) = N /\ Len(enhancedChunks) = N

\* the document the caller receives, if any
HasDocument ==
    \/ response.kind = "document"
    \/ /\ response.kind = "stream"
       /\ \E e \in 1..Len(response.events) : response.events[e].type = "complete"

HasError ==
    \/ response.kind = "error"
    \/ /\ response.kind = "stream"
       /\ \E e \in 1..Len(response.events) : response.events[e].type = "error"

Document ==
    IF response.kind = "document" THEN response.enhanced_transcript
    ELSE response.events[Len(response.events)].enhanced_transcript

CallFailed(c) == calls[c].status = "threw"

\* fragment j as the claims describe it: the formatted chunk when the call
\* failed, else the text the enhancer returned
ExpectedFragment(j) ==
    IF CallFailed(j) THEN Str(formatChunk(chunks[j])) ELSE calls[j].value

\* C3: if the enhancer fails for chunk i only, fragment i is the formatted
\* text of chunk i, every other fragment is the text the enhancer returned
\* for its chunk, and the run ends with a success response.
C3_FallbackOnFailure ==
    (Completed /\ Cardinality({c \in 1..N : CallFailed(c)}) = 1) =>
        /\ HasDocument
        /\ ~HasError
        /\ Document = JoinFragments([j \in 1..N |-> ExpectedFragment(j)])

\* C4: when the enhancer's credential is missing the run aborts with an
\* error at once: no document is returned and no further chunk is processed.
C4_MissingKeyAborts ==
    ~env.key =>
        /\ ~HasDocument
        /\ enhancedChunks = <<>>
        /\ Len(calls) <= 1

\* Parsing the request's transcript yields zero segments.  Once the handler
\* has parsed, segments holds what the parser returned (C5_ParseError checks
\* it where the handler has just parsed; no later step assigns segments).
ParseYieldsNothing == segments = <<>> /\ RouteParse(route, transcript) = <<>>

\* C5 as stated: a transcript that parses to zero segments is answered with
\* the parse error, never with a document, and the enhancer is not invoked.
C5_ParseErrorAsStated ==
    (pc = "done" /\ ParseYieldsNothing) =>
        /\ response.kind = "error"
        /\ response.error = "Could not parse transcript segments"
        /\ calls = <<>>

\* the checks a route makes on the request before it parses the transcript
RequestRejectedFirst ==
    \/ transcript = <<>>
    \/ env.audio \in {"missing", "unreachable"}

\* C5 as amended: a transcript that parses to zero segments is answered
\* with an error response, never with a document, and the enhancer is not
\* invoked; the error is the parse error unless a check on the request
\* (empty transcript, audio absent or not downloadable) rejects it first.
C5_ParseError ==
    /\ (pc = "awaiting" /\ Len(calls) = 1) =>
          segments = RouteParse(route, transcript)
    /\ (calls # <<>> \/ HasDocument \/ response.kind = "stream") =>
          segments # <<>>
    /\ (pc = "done" /\ ParseYieldsNothing) =>
          /\ response.kind = "error"
          /\ response.status \in {400, 500}
          /\ calls = <<>>
          /\ ~RequestRejectedFirst =>
                /\ response.error = "Could not parse transcript segments"
                /\ response.status = 400

C5_Witness ==
    /\ pc = "done"
    /\ ParseYieldsNothing
    /\ transcript # <<>>
    /\ response.error = "Could not parse transcript segments"

\* C6: a run that has ended gave exactly one of two outcomes: a document of
\* exactly N fragments, fragment j coming from chunk j, or one error.
C6_CompleteOrError ==
    /\ pc = "done" => (HasDocument /\ ~HasError) \/ (HasError /\ ~HasDocument)
    /\ HasDocument =>
          /\ pc = "done"
          /\ N >= 1
          /\ Len(enhancedChunks) = N
          /\ Len(calls) = N
          /\ \A j \in 1..N :
                /\ calls[j].chunk = j - 1
                /\ calls[j].arg = formatChunk(chunks[j])
                /\ enhancedChunks[j] \in
                       {calls[j].value, Str(formatChunk(chunks[j]))}
                /\ (CallFailed(j) => enhancedChunks[j] = Str(formatChunk(chunks[j])))
          /\ Document =
                Join([j \in 1..N |-> Rendered(enhancedChunks[j])], <<LF, LF>>)
    /\ response.kind = "stream" =>
          Cardinality({e \in 1..Len(response.events) :
                          response.events[e].type \in {"complete", "error"}}) <= 1

C6_Witness ==
    /\ pc = "done"
    /\ HasDocument
    /\ N = 3
    /\ CallFailed(2)
    /\ ~CallFailed(1)
    /\ enhancedChunks[1] # enhancedChunks[3]

Pending == {c \in 1..Len(calls) : calls[c].status = "pending"}

Before(ev1, k1, ev2, k2) ==
    \E p, q \in 1..Len(log) :
        p < q /\ log[p] = Step(ev1, k1) /\ log[q] = Step(ev2, k2)

\* C7: at most one enhancer call is outstanding at any time, and the call
\* for chunk k+1 is issued only after the call for chunk k has ended and
\* fragment k has been recorded.
C7_Sequential ==
    /\ Cardinality(Pending) <= 1
    /\ \A c \in 1..Len(calls) :
          /\ calls[c].chunk = c - 1
          /\ c < Len(calls) =>
                /\ calls[c].status # "pending"
                /\ Len(enhancedChunks) >= c
                /\ Before("settle", c - 1, "call", c)
                /\ Before("push", c - 1, "call", c)
          /\ calls[c].status = "pending" => Len(enhancedChunks) = c - 1

C7_Witness ==
    /\ pc = "awaiting"
    /\ Len(calls) = 3
    /\ CallFailed(1)
    /\ ~CallFailed(2)
    /\ Pending = {3}

Delays == {p \in 1..Len(log) : log[p].ev = "delay"}

\* C8: a run over N chunks makes exactly N-1 pacing delays: one between
\* recording fragment k and issuing the call for chunk k+1, whether the
\* call for chunk k succeeded or failed, and none after the last chunk.
C8_PacingDelays ==
    /\ \A p \in Delays :
          /\ log[p].k < N - 1
          /\ p > 1
          /\ log[p - 1] = Step("push", log[p].k)
    /\ \A p \in 1..Len(log) :
          (log[p].ev = "call" /\ log[p].k >= 1) =>
              \E q \in Delays :
                  /\ q < p
                  /\ log[q].k = log[p].k - 1
                  /\ \A r \in (q + 1)..(p - 1) : log[r].ev = "progress"
    /\ \A k \in 0..(N - 1) :
          Cardinality({p \in Delays : log[p].k = k}) <= 1
    /\ Completed => Cardinality(Delays) = N - 1

C8_Witness ==
    /\ Completed
    /\ N = 3
    /\ Cardinality(Delays) = 2
    /\ CallFailed(1)
    /\ ~CallFailed(2)

\* C14: when the call for chunk j succeeds, fragment j is exactly the text
\* the enhancer returned, the empty string included; the formatted chunk
\* is used only when the call failed.
C14_SuccessTextVerbatim ==
    Completed =>
        \A j \in 1..N :
            /\ ~CallFailed(j) => enhancedChunks[j] = calls[j].value
            /\ enhancedChunks[j] = Str(formatChunk(chunks[j])) => CallFailed(j)

\* the call for chunk j failed as a single call of the Claude enhancer: it
\* threw (non-OK status, no or empty content array) or its first content
\* element had no text field
ClaudeCallFailed(j) == CallFailed(j) \/ calls[j].value = Undefined

\* C15: every single-call failure of the Claude enhancer, a malformed
\* response body included, makes fragment j the formatted chunk text, and
\* the run goes on through every chunk.
C15_ClaudeFailureFallsBack ==
    (route = "claude" /\ pc = "done" /\ chunks # <<>>) =>
        /\ Completed
        /\ HasDocument
        /\ \A j \in 1..N :
              ClaudeCallFailed(j) => enhancedChunks[j] = Str(formatChunk(chunks[j]))

---------------------------------------------------------------------------
(* The streaming route with a reader that may go away *)

\* The reader of the response stream cancels it (the client disconnects)
\* while the handler is at an await; the stream has no cancel handler and
\* start() goes on.
ObserverLeaves ==
    /\ route = "geminiStream"
    /\ pc \in {"awaiting", "delay"}
    /\ observer = "listening"
    /\ observer' = "gone"
    /\ UNCHANGED <<route, env, transcript, segments, maxTokens, chunks, pc, i,
                   enhancedChunks, calls, log, response, other,
                   job, client, page>>

NextObserved ==
    \/ ClaudeReceive
    \/ GeminiReceive
    \/ GeminiStreamReceive
    \/ CallSettles
    \/ DelayElapses
    \/ ObserverLeaves

SpecObserved == Init /\ [][NextObserved]_vars

\* the loop went through every chunk
LoopEnded == pc = "done" /\ N >= 1 /\ Len(enhancedChunks) = N

\* C16: progress reporting does not affect the outcome: whether the
\* progress emissions succeed or fail, the enhancer is called for every
\* chunk and the fragments that make the final document are those its
\* calls give.
C16_ProgressNoEffect ==
    LoopEnded =>
        /\ Len(calls) = N
        /\ \A j \in 1..N :
              /\ calls[j].chunk = j - 1
              /\ enhancedChunks[j] =
                     Fragment(route, calls[j], formatChunk(chunks[j]))

---------------------------------------------------------------------------
(* Two requests to one route, their awaits interleaved *)

\* what a run of POST holds: its request, its local constants and
\* variables, its response
Locals ==
    [route |-> route, env |-> env, transcript |-> transcript,
     segments |-> segments, maxTokens |-> maxTokens, chunks |-> chunks,
     pc |-> pc, i |-> i, enhancedChunks |-> enhancedChunks, calls |-> calls,
     log |-> log, response |-> response, observer |-> observer]

ModuleFragments(suspended, current) == current

\* const enhancedChunks: string[] = [] is declared inside POST: the run
\* that resumes finds its own array, not the one of the run that ran last
RunFragments(suspended, current) == suspended

\* the header style the route's parser reads
StyleOf(r) == IF r = "claude" THEN "bold" ELSE "plain"

RunInputs(r, maxLen) ==
    {BuildTranscript(StyleOf(r), sizes) : sizes \in SizeSeqs(maxLen) \ {<<>>}}

\* a request to route r that has not been handled yet
Request(r, t) ==
    [NoRun EXCEPT !.route = r,
                  !.env = [key |-> TRUE,
                           audio |-> IF r = "claude" THEN "none" ELSE "usable"],
                  !.transcript = t, !.maxTokens = RouteMaxTokens,
                  !.pc = "request"]

InitTwoRuns ==
    /\ route \in Routes
    /\ env = Request(route, <<>>).env
    /\ transcript \in RunInputs(route, MaxRunParas)
    /\ segments = <<>>
    /\ maxTokens = RouteMaxTokens
    /\ chunks = <<>>
    /\ pc = "request"
    /\ i = 0
    /\ enhancedChunks = <<>>
    /\ calls = <<>>
    /\ log = <<>>
    /\ response = NoResponse
    /\ observer = "listening"
    /\ other = Request(route, BuildTranscript(StyleOf(route), <<"small", "big">>))
    /\ job = NoJob
    /\ client = NoClient
    /\ page = NoPage

\* The running handler is at an await, or has returned, and the event loop
\* goes on with the other run.
Switch ==
    /\ pc \in {"awaiting", "delay", "done"}
    /\ other.pc \notin {"none", "done"}
    /\ other' = Locals
    /\ route' = other.route
    /\ env' = other.env
    /\ transcript' = other.transcript
    /\ segments' = other.segments
    /\ maxTokens' = other.maxTokens
    /\ chunks' = other.chunks
    /\ pc' = other.pc
    /\ i' = other.i
    /\ enhancedChunks' = RunFragments(other.enhancedChunks, enhancedChunks)
    /\ calls' = other.calls
    /\ log' = other.log
    /\ response' = other.response
    /\ observer' = other.observer
    /\ UNCHANGED <<job, client, page>>

NextTwoRuns ==
    \/ ClaudeReceive
    \/ GeminiReceive
    \/ GeminiStreamReceive
    \/ CallSettles
    \/ DelayElapses
    \/ Switch

SpecTwoRuns == InitTwoRuns /\ [][NextTwoRuns]_vars

\* the events a run of the stream route over n chunks emits when executed
\* alone
EventsAlone(doc, n, nSegments) ==
    <<ProgressEvent(0, n)>> \o [k \in 1..n |-> ProgressEvent(k - 1, n)]
        \o <<CompleteEvent(doc, n, nSegments)>>

\* Run l is as it is when executed alone on its request with the results
\* its own enhancer calls had: its fragments, and at its end its document,
\* fragment count and progress sequence.
AsAlone(l) ==
    LET segs == RouteParse(l.route, l.transcript)
        cks == createChunks(segs, RouteMaxTokens)
        doc == JoinFragments([j \in 1..Len(cks) |->
                   Fragment(l.route, l.calls[j], formatChunk(cks[j]))])
    IN  l.pc \notin {"none", "request"} =>
            /\ l.chunks = cks
            /\ Len(l.calls) <= Len(cks)
            /\ Len(l.enhancedChunks) <= Len(l.calls)
            /\ \A j \in 1..Len(l.enhancedChunks) :
                  /\ l.calls[j].status # "pending"
                  /\ l.enhancedChunks[j] =
                         Fragment(l.route, l.calls[j], formatChunk(cks[j]))
            /\ l.pc = "done" =>
                  /\ Len(l.calls) = Len(cks)
                  /\ Len(l.enhancedChunks) = Len(cks)
                  /\ IF l.route = "geminiStream"
                     THEN l.response =
                              StreamResponse(EventsAlone(doc, Len(cks), Len(segs)),
                                             TRUE)
                     ELSE l.response = DocumentResponse(doc, Len(cks), Len(segs))

\* C17: two runs whose awaits interleave share no mutable state: each has
\* the document, fragment count and progress sequence it has when executed
\* alone.
C17_RunsIndependent == AsAlone(Locals) /\ AsAlone(other)

C17_Witness ==
    /\ pc = "done"
    /\ HasDocument
    /\ other.pc = "delay"
    /\ Len(other.chunks) = 2
    /\ Len(other.enhancedChunks) = 1
    /\ other.enhancedChunks[1] # enhancedChunks[1]

\* C6 as amended: a run that has ended while its caller was still reading
\* gave exactly one of two outcomes, a document of exactly N fragments,
\* fragment j coming from chunk j, or one error; a run of the stream route
\* whose reader has gone ends with neither, and never with a document.
C6_OutcomeWhileRead ==
    /\ (pc = "done" /\ observer = "listening") =>
          (HasDocument /\ ~HasError) \/ (HasError /\ ~HasDocument)
    /\ (pc = "done" /\ observer = "gone") => ~HasDocument /\ ~HasError
    /\ HasDocument =>
          /\ pc = "done"
          /\ N >= 1
          /\ Len(enhancedChunks) = N
          /\ Len(calls) = N
          /\ \A j \in 1..N :
                /\ calls[j].chunk = j - 1
                /\ calls[j].arg = formatChunk(chunks[j])
                /\ enhancedChunks[j] \in
                       {calls[j].value, Str(formatChunk(chunks[j]))}
                /\ (CallFailed(j) => enhancedChunks[j] = Str(formatChunk(chunks[j])))
          /\ Document =
                Join([j \in 1..N |-> Rendered(enhancedChunks[j])], <<LF, LF>>)
    /\ response.kind = "stream" =>
          Cardinality({e \in 1..Len(response.events) :
                          response.events[e].type \in {"complete", "error"}}) <= 1

---------------------------------------------------------------------------
(* Further properties of the enhance routes *)

\* C21: in a run that reached its end over N chunks the enhancer was
\* invoked exactly N times, once per chunk in chunk order, each time with
\* the formatted text of the chunk: no call is retried, no chunk skipped.
C21_OneCallPerChunk ==
    LoopEnded =>
        /\ Len(calls) = N
        /\ \A j \in 1..N :
              /\ Cardinality({c \in 1..Len(calls) : calls[c].chunk = j - 1}) = 1
              /\ calls[j].chunk = j - 1
              /\ calls[j].arg = formatChunk(chunks[j])

Events == response.events
IsTerminal(e) == Events[e].type \in {"complete", "error"}
Terminals == {e \in 1..Len(Events) : IsTerminal(e)}

\* the order of the events emitted so far: progress events carry total = N
\* and completed in 0..N, non-decreasing, the one of chunk k has completed
\* = k and directly precedes the call for chunk k; a terminal event is the
\* only one, the last one, and the stream is closed once it is emitted
EventsOrdered ==
    /\ \A e \in 1..Len(Events) :
          Events[e].type = "progress" =>
              /\ Events[e].total = N
              /\ Events[e].completed \in 0..N
              /\ e = 1 => Events[e].completed = 0
              /\ e > 1 => Events[e].completed = e - 2
    /\ \A e \in 1..(Len(Events) - 1) :
          (Events[e].type = "progress" /\ Events[e + 1].type = "progress") =>
              Events[e].completed <= Events[e + 1].completed
    /\ \A p \in 1..Len(log) :
          log[p].ev = "call" =>
              /\ p > 1
              /\ log[p - 1] = Step("progress", log[p].k)
              /\ Events[log[p].k + 2].type = "progress"
              /\ Events[log[p].k + 2].completed = log[p].k
    /\ Cardinality(Terminals) <= 1
    /\ \A e \in Terminals : e = Len(Events)
    /\ response.closed <=> Terminals # {}

\* C22 as stated: the events of a run of the streaming route are ordered,
\* and a run that has ended emitted exactly one terminal event, as its last
\* event, and closed the stream after it.
C22_EventOrderAsStated ==
    response.kind = "stream" =>
        /\ EventsOrdered
        /\ pc = "done" => (Cardinality(Terminals) = 1 /\ response.closed)

\* C22 as amended: the events of a run of the streaming route are ordered;
\* a run that has ended while its reader was listening emitted exactly one
\* terminal event, as its last event, and closed the stream after it; once
\* the reader has gone no event is emitted any more.
C22_EventOrder ==
    response.kind = "stream" =>
        /\ EventsOrdered
        /\ (pc = "done" /\ observer = "listening") =>
              (Cardinality(Terminals) = 1 /\ response.closed)
        /\ (pc = "done" /\ observer = "gone") =>
              (Terminals = {} /\ ~response.closed)

C22_Witness ==
    /\ pc = "done"
    /\ response.kind = "stream"
    /\ observer = "listening"
    /\ N = 3
    /\ Len(Events) = 5
    /\ Events[5].type = "complete"
    /\ Events[4].type = "progress"
    /\ Events[4].completed = 2
    /\ Events[4].total = 3
    /\ response.closed

\* C23: for every input text the copy of parseMarkdownTranscript in the
\* Claude enhance route returns the same segment sequence as the
\* parseMarkdownTranscript of the shared chunking module.
C23_ParsersAgree ==
    pc = "parsed" => claudeParseMarkdownTranscript(transcript) = segments

\* the document of a run over cks in which every call ended as outcomeOf
\* says for its formatted chunk
DocumentWhen(r, outcomeOf(_), cks) ==
    JoinFragments([j \in 1..Len(cks) |->
        Fragment(r, outcomeOf(formatChunk(cks[j])), formatChunk(cks[j]))])

IdentityOutcome(arg) == Returned(Str(arg))
FailedOutcome(arg) == Threw("failed")

\* the formatted text of all segments taken as one single chunk
AsOneChunk(segs) == formatChunk([segments |-> segs])

---------------------------------------------------------------------------
(* The transcribe route: formatTranscriptToMarkdown and the polling loop *)

MaxUtterances == 3

DigitChars == <<"0", "1", "2", "3", "4", "5", "6", "7", "8", "9">>

\* Number.prototype.toString of a natural number
RECURSIVE toString(_)
toString(n) ==
    IF n < 10 THEN <<DigitChars[n + 1]>>
    ELSE toString(n \div 10) \o <<DigitChars[(n % 10) + 1]>>

\* padStart(2, '0')
PadStart2(s) == IF Len(s) < 2 THEN <<"0">> \o s ELSE s

formatTimestamp(milliseconds) ==
    LET seconds == milliseconds \div 1000
        hours == seconds \div 3600
        minutes == (seconds % 3600) \div 60
        secs == seconds % 60
    IN  toString(hours) \o <<":">> \o PadStart2(toString(minutes))
        \o <<":">> \o PadStart2(toString(secs))

\* String.prototype.toUpperCase over the letters of the labels
UpperOf(c) ==
    CASE c = "a" -> "A" [] c = "b" -> "B" [] c = "e" -> "E" [] c = "k" -> "K"
      [] c = "p" -> "P" [] c = "r" -> "R" [] c = "s" -> "S" [] OTHER -> c

toUpperCase(s) == [k \in 1..Len(s) |-> UpperOf(s[k])]

\* String.prototype.replace(pattern, replacement) with a string pattern:
\* the first occurrence only
RECURSIVE replace(_, _, _)
replace(s, pattern, replacement) ==
    IF Len(s) < Len(pattern) THEN s
    ELSE IF SubSeq(s, 1, Len(pattern)) = pattern
         THEN replacement \o SubSeq(s, Len(pattern) + 1, Len(s))
         ELSE <<Head(s)>> \o replace(Tail(s), pattern, replacement)

\* utterance.speaker.replace('speaker_', 'Speaker ').toUpperCase()
SpeakerLabel(speaker) ==
    toUpperCase(replace(speaker, <<"s", "p", "e", "a", "k", "e", "r", "_">>,
                        <<"S", "p", "e", "a", "k", "e", "r", SP>>))

NoTranscriptAvailable ==
    <<"N", "o", SP, "t", "r", "a", "n", "s", "c", "r", "i", "p", "t", SP,
      "a", "v", "a", "i", "l", "a", "b", "l", "e", ".">>

\* the for loop of formatTranscriptToMarkdown
RECURSIVE FormatUtterances(_, _)
FormatUtterances(utterances, currentSpeaker) ==
    IF utterances = <<>> THEN <<>>
    ELSE LET utterance == Head(utterances)
             header ==
                 IF utterance.speaker # currentSpeaker
                 THEN <<LF>> \o SpeakerLabel(utterance.speaker) \o <<SP>>
                      \o formatTimestamp(utterance.start) \o <<LF, LF>>
                 ELSE <<>>
         IN  header \o utterance.text \o <<LF, LF>>
             \o FormatUtterances(Tail(utterances), utterance.speaker)

formatTranscriptToMarkdown(utterances) ==
    IF Len(utterances) = 0 THEN NoTranscriptAvailable
    ELSE Trim(FormatUtterances(utterances, <<>>))

\* speaker labels of the service: letters, and the speaker_N form the
\* formatter rewrites
SpeakerLabels == {<<"A">>, <<"B">>, <<"s", "p", "e", "a", "k", "e", "r", "_", "0">>}

RECURSIVE Pow61(_)
Pow61(k) == IF k = 0 THEN 1 ELSE 61 * Pow61(k - 1)

\* the start of the k-th utterance in milliseconds: 0:00:01, 0:01:01,
\* 1:02:01, 63:03:01, ...
StartOf(k) == 1000 * Pow61(k - 1) + 500

Utterance(speaker, k) ==
    [speaker |-> speaker, start |-> StartOf(k), text |-> <<"word", SP, "h">>]

UtteranceLists(maxLen) ==
    {[k \in 1..Len(ls) |-> Utterance(ls[k], k)] :
        ls \in UNION {[1..n -> SpeakerLabels] : n \in 0..maxLen}}

\* result.text
RawText(utterances) == Join([k \in 1..Len(utterances) |-> utterances[k].text], <<SP>>)

\* the body of a status poll
PollResult(status, utterances, error) ==
    [ok |-> TRUE, status |-> status, utterances |-> utterances,
     text |-> RawText(utterances), error |-> error]

PollNotOk == [PollResult("none", <<>>, "") EXCEPT !.ok = FALSE]

PollResults(maxLen) ==
    {PollNotOk, PollResult("queued", <<>>, ""), PollResult("processing", <<>>, ""),
     PollResult("error", <<>>, ""), PollResult("error", <<>>, "bad audio")}
    \cup {PollResult("completed", u, "") : u \in UtteranceLists(maxLen)}

\* const maxAttempts = 60
maxAttempts == 60

TimedOutAfter(attempts) == attempts > maxAttempts

\* if (attempts >= maxAttempts) throw new Error('Transcription timeout')
TimedOut(attempts) == attempts >= maxAttempts

\* while (result.status === 'queued' || result.status === 'processing')
StillPending(result) == result.status \in {"queued", "processing"}

JobError(status, message) ==
    [status |-> status, error |-> message, transcript |-> <<>>, raw_text |-> <<>>]

JobTranscript(result) ==
    [status |-> 200, error |-> "",
     transcript |-> formatTranscriptToMarkdown(result.utterances),
     raw_text |-> result.text]

NewJob(key, upload_url) ==
    [pc |-> "request", key |-> key, upload_url |-> upload_url, attempts |-> 0,
     trace |-> <<>>, result |-> PollResult("none", <<>>, ""), responses |-> <<>>]

\* every variable of the enhance routes at rest
NoHandler ==
    /\ route = "none"
    /\ env = [key |-> TRUE, audio |-> "none"]
    /\ transcript = <<>>
    /\ segments = <<>>
    /\ maxTokens = 0
    /\ chunks = <<>>
    /\ pc = "none"
    /\ i = 0
    /\ enhancedChunks = <<>>
    /\ calls = <<>>
    /\ log = <<>>
    /\ response = NoResponse
    /\ observer = "listening"
    /\ other = NoRun

InitTranscribe ==
    /\ NoHandler
    /\ job \in {NewJob(key, url) : key \in BOOLEAN, url \in BOOLEAN}
    /\ client = NoClient
    /\ page = NoPage

\* return NextResponse.json(...), from the body or from the catch
JobResponds(r) ==
    job' = [job EXCEPT !.pc = "done", !.responses = Append(@, r)]

\* POST up to the first wait of the polling loop
TranscribeReceive ==
    /\ job.pc = "request"
    /\ IF ~job.key
       THEN JobResponds(JobError(500, "AssemblyAI API key not configured"))
       ELSE IF ~job.upload_url
       THEN JobResponds(JobError(400, "No upload URL provided"))
       ELSE \E ok \in BOOLEAN :
               IF ~ok
               THEN JobResponds(JobError(500, "Transcription request failed"))
               ELSE job' = [job EXCEPT !.pc = "wait"]
    /\ UNCHANGED <<route, env, transcript, segments, maxTokens, chunks, pc, i,
                   enhancedChunks, calls, log, response, observer, other,
                   client, page>>

\* await new Promise(resolve => setTimeout(resolve, 10000)), then the fetch
WaitElapses ==
    /\ job.pc = "wait"
    /\ job' = [job EXCEPT !.pc = "poll", !.trace = Append(@, "wait")]
    /\ UNCHANGED <<route, env, transcript, segments, maxTokens, chunks, pc, i,
                   enhancedChunks, calls, log, response, observer, other,
                   client, page>>

\* the poll settles: the rest of the loop body, the loop test, and what
\* follows the loop
PollSettles ==
    /\ job.pc = "poll"
    /\ \E result \in PollResults(MaxUtterances) :
          LET polled == [job EXCEPT !.trace = Append(@, "poll")]
              counted == [polled EXCEPT !.result = result,
                                        !.attempts = job.attempts + 1]
              respond(j, r) ==
                  [j EXCEPT !.pc = "done", !.responses = Append(@, r)]
          IN  IF ~result.ok
              THEN job' = respond(polled, JobError(500, "Polling failed"))
              ELSE IF TimedOut(counted.attempts)
              THEN job' = respond(counted, JobError(500, "Transcription timeout"))
              ELSE IF StillPending(result)
              THEN job' = [counted EXCEPT !.pc = "wait"]
              ELSE IF result.status = "error"
              THEN job' = respond(counted,
                         JobError(500, IF result.error # "" THEN result.error
                                       ELSE "Transcription failed"))
              ELSE job' = respond(counted, JobTranscript(result))
    /\ UNCHANGED <<route, env, transcript, segments, maxTokens, chunks, pc, i,
                   enhancedChunks, calls, log, response, observer, other,
                   client, page>>

NextTranscribe ==
    \/ TranscribeReceive
    \/ WaitElapses
    \/ PollSettles

SpecTranscribe == InitTranscribe /\ [][NextTranscribe]_vars

\* timers fire and the requests to the service settle
SpecTranscribeLive == SpecTranscribe /\ WF_vars(NextTranscribe)

JobDone == job.pc = "done"
JobResponse == job.responses[Len(job.responses)]

\* C25: a poll that returns 'completed' makes the handler respond with the
\* formatted transcript, the 60th poll included; 'Transcription timeout' is
\* answered only when the last allowed poll still says queued or processing.
C25_CompletedYieldsTranscript ==
    JobDone =>
        /\ job.result.status = "completed" =>
              JobResponse = JobTranscript(job.result)
        /\ JobResponse.error = "Transcription timeout" =>
              (job.attempts = maxAttempts /\ StillPending(job.result))

Polls == {p \in 1..Len(job.trace) : job.trace[p] = "poll"}

\* C26: the polling loop issues at most 60 polls, each directly preceded by
\* one wait, a handler that has ended has given exactly one response and
\* one that has not has given none, and every run of the handler ends.
C26_PollingBounded ==
    /\ job.pc # "none"
    /\ Cardinality(Polls) <= maxAttempts
    /\ \A p \in 1..Len(job.trace) :
          IF p % 2 = 1 THEN job.trace[p] = "wait" ELSE job.trace[p] = "poll"
    /\ Len(job.responses) = IF JobDone THEN 1 ELSE 0

C26_PollingTerminates == []C26_PollingBounded /\ <>JobDone

C26_Witness ==
    /\ JobDone
    /\ Cardinality(Polls) = maxAttempts
    /\ Len(job.trace) = 2 * maxAttempts
    /\ StillPending(job.result)
    /\ JobResponse = JobError(500, "Transcription timeout")

\* the (label, timestamp) of each maximal run of utterances of one speaker
RECURSIVE Runs(_, _)
Runs(utterances, currentSpeaker) ==
    IF utterances = <<>> THEN <<>>
    ELSE (IF Head(utterances).speaker # currentSpeaker
          THEN <<[speaker |-> SpeakerLabel(Head(utterances).speaker),
                  timestamp |-> formatTimestamp(Head(utterances).start)]>>
          ELSE <<>>)
         \o Runs(Tail(utterances), Head(utterances).speaker)

Headers(segs) ==
    [k \in 1..Len(segs) |-> [speaker |-> segs[k].speaker,
                             timestamp |-> segs[k].timestamp]]

\* C27: the transcript formatted from a non-empty list of utterances parses
\* into one segment per maximal run of one speaker, carrying the timestamp
\* of the run's first utterance, and the enhance route finds segments in it.
C27_FormattedTranscriptParses ==
    (JobDone /\ JobResponse.status = 200 /\ job.result.utterances # <<>>) =>
        /\ Headers(parseMarkdownTranscript(JobResponse.transcript))
              = Runs(job.result.utterances, <<>>)
        /\ ~NoSegments(RouteParse("claude", JobResponse.transcript))

---------------------------------------------------------------------------
(* The streaming page: enhanceTranscriptInternal reading the event stream *)

MaxProgressEvents == 1

DataPrefix == <<"d", "a", "t", "a", ":", SP>>

\* JSON.stringify of an event: the braces, the type and the payload
Stringify(event) == <<"{", event.type, event.value, "}">>

\* encoder.encode(`data: ${JSON.stringify(event)}\n\n`)
Encode(event) == DataPrefix \o Stringify(event) \o <<LF, LF>>

RECURSIVE EncodeAll(_)
EncodeAll(events) ==
    IF events = <<>> THEN <<>> ELSE Encode(Head(events)) \o EncodeAll(Tail(events))

ServerEvent(type, value) == [type |-> type, value |-> value]

\* what the server sends: progress events, then one terminal event
ServerStreams(maxProgress) ==
    {[k \in 1..n |-> ServerEvent("progress", "0/1")] \o <<last>> :
        n \in 0..maxProgress,
        last \in {ServerEvent("complete", "document"), ServerEvent("error", "upload failed")}}

\* line.startsWith('data: ')
StartsWithData(line) ==
    Len(line) >= Len(DataPrefix) /\ SubSeq(line, 1, Len(DataPrefix)) = DataPrefix

SyntaxError == [ok |-> FALSE, type |-> "", value |-> ""]

\* JSON.parse(line.slice(6)): the value, or a SyntaxError for a text that is
\* not one whole object
JSONParse(text) ==
    IF Len(text) = 4 /\ text[1] = "{" /\ text[4] = "}"
    THEN [ok |-> TRUE, type |-> text[2], value |-> text[3]]
    ELSE SyntaxError

\* the body of the inner try for one line: the catch (parseError) takes a
\* SyntaxError and the Error thrown for an 'error' event alike
HandleLine(c, line) ==
    IF ~StartsWithData(line) THEN c
    ELSE LET data == JSONParse(SubSeq(line, Len(DataPrefix) + 1, Len(line)))
         IN  IF ~data.ok THEN c
             ELSE IF data.type = "progress" THEN [c EXCEPT !.progress = data.value]
             ELSE IF data.type = "complete"
             THEN [c EXCEPT !.enhancedTranscript = data.value, !.progress = "all"]
             ELSE c

\* for (const line of lines)
RECURSIVE HandleLines(_, _)
HandleLines(c, lines) ==
    IF lines = <<>> THEN c
    ELSE HandleLines(HandleLine(c, Head(lines)), Tail(lines))

NewClient(events) ==
    [pc |-> "idle", enhancing |-> FALSE, error |-> "", enhancedTranscript |-> "",
     progress |-> "", events |-> events, bytes |-> EncodeAll(events),
     reads |-> 0, ended |-> ""]

InitClient ==
    /\ NoHandler
    /\ job = NoJob
    /\ client \in {NewClient(events) : events \in ServerStreams(MaxProgressEvents)}
    /\ page = NoPage

\* catch (err) { setError(...) } finally { setEnhancing(false) }
ClientFails(c, message) ==
    [c EXCEPT !.error = message, !.enhancing = FALSE, !.pc = "done",
              !.ended = "failure"]

\* enhanceTranscriptInternal up to the fetch
ClientStart ==
    /\ client.pc = "idle"
    /\ client' = [client EXCEPT !.enhancing = TRUE, !.error = "",
                                !.progress = "0/0", !.pc = "fetch"]
    /\ UNCHANGED <<route, env, transcript, segments, maxTokens, chunks, pc, i,
                   enhancedChunks, calls, log, response, observer, other,
                   job, page>>

\* the fetch settles: up to the first reader.read()
ClientFetchSettles ==
    /\ client.pc = "fetch"
    /\ \E outcome \in {"rejected", "not ok", "no body", "stream"} :
          client' =
              IF outcome = "rejected" THEN ClientFails(client, "Failed to fetch")
              ELSE IF outcome = "not ok"
              THEN ClientFails(client, "Failed to enhance transcript")
              ELSE IF outcome = "no body"
              THEN ClientFails(client, "No response stream available")
              ELSE [client EXCEPT !.pc = "reading"]
    /\ UNCHANGED <<route, env, transcript, segments, maxTokens, chunks, pc, i,
                   enhancedChunks, calls, log, response, observer, other,
                   job, page>>

\* reader.read() resolves with the next n bytes of the stream
ClientRead ==
    /\ client.pc = "reading"
    /\ \E n \in 1..Len(client.bytes) :
          LET value == SubSeq(client.bytes, 1, n)
              lines == SplitLF(value, <<>>)
              rest == [client EXCEPT
                          !.bytes = SubSeq(@, n + 1, Len(@)),
                          !.reads = @ + 1]
          IN  client' = HandleLines(rest, lines)
    /\ UNCHANGED <<route, env, transcript, segments, maxTokens, chunks, pc, i,
                   enhancedChunks, calls, log, response, observer, other,
                   job, page>>

\* reader.read() resolves with done: break, finally
ClientReadDone ==
    /\ client.pc = "reading"
    /\ client.bytes = <<>>
    /\ client' = [client EXCEPT !.enhancing = FALSE, !.pc = "done",
                                !.ended = "stream end"]
    /\ UNCHANGED <<route, env, transcript, segments, maxTokens, chunks, pc, i,
                   enhancedChunks, calls, log, response, observer, other,
                   job, page>>

\* reader.read() rejects
ClientReadFails ==
    /\ client.pc = "reading"
    /\ client' = ClientFails(client, "network error")
    /\ UNCHANGED <<route, env, transcript, segments, maxTokens, chunks, pc, i,
                   enhancedChunks, calls, log, response, observer, other,
                   job, page>>

NextClient ==
    \/ ClientStart
    \/ ClientFetchSettles
    \/ ClientRead
    \/ ClientReadDone
    \/ ClientReadFails

SpecClient == InitClient /\ [][NextClient]_vars

\* the whole stream was delivered to the client
StreamDelivered == client.pc = "done" /\ client.ended = "stream end"

Delivered(type) == {e \in 1..Len(client.events) : client.events[e].type = type}

\* C28: when the stream has delivered an 'error' event the UI error state is
\* that event's message and the enhancing flag is cleared.
C28_ErrorEventShown ==
    StreamDelivered =>
        \A e \in Delivered("error") :
            /\ client.error = client.events[e].value
            /\ ~client.enhancing

\* C29: when the stream has delivered a 'complete' event the enhanced
\* transcript is that event's document, however the stream was divided into
\* reads.
C29_CompleteEventShown ==
    StreamDelivered =>
        \A e \in Delivered("complete") :
            client.enhancedTranscript = client.events[e].value

---------------------------------------------------------------------------
(* The page: processFile, enhanceTranscript and the enhancing flag *)

MaxRequests == 3

\* the state of Home after mounting; requests are the calls of
\* enhanceTranscriptInternal, each "outstanding", "enhanced" or "failed";
\* enhancedTranscript names the request whose result is shown (0: none)
NewPage ==
    [pc |-> "mounted", file |-> FALSE, processing |-> FALSE, transcript |-> "",
     enhancedTranscript |-> 0, enhancing |-> FALSE, progress |-> "0/0",
     error |-> "", transcriptions |-> 0, requests |-> <<>>]

InitPage ==
    /\ NoHandler
    /\ job = NoJob
    /\ client = NoClient
    /\ page = NewPage

\* enhanceTranscriptInternal up to the fetch
StartEnhancement(p) ==
    [p EXCEPT !.enhancing = TRUE, !.error = "", !.progress = "0/0",
              !.requests = Append(@, "outstanding")]

\* handleFileChange with a selected file
HandleFileChange ==
    /\ page.pc = "mounted"
    /\ page' = [page EXCEPT !.file = TRUE, !.error = ""]
    /\ UNCHANGED <<route, env, transcript, segments, maxTokens, chunks, pc, i,
                   enhancedChunks, calls, log, response, observer, other,
                   job, client>>

\* a click on 'Generate Transcript' (disabled={!file || processing}):
\* processFile up to the fetch
ProcessFile ==
    /\ page.file
    /\ ~page.processing
    /\ page.transcriptions < MaxRequests
    /\ page' = [page EXCEPT !.processing = TRUE, !.error = "", !.transcript = "",
                            !.transcriptions = @ + 1]
    /\ UNCHANGED <<route, env, transcript, segments, maxTokens, chunks, pc, i,
                   enhancedChunks, calls, log, response, observer, other,
                   job, client>>

\* the fetch of /api/transcribe settles: the rest of processFile, with the
\* enhancement it starts and does not await
TranscribeSettles ==
    /\ page.processing
    /\ \E ok \in {b \in BOOLEAN : b => Len(page.requests) < MaxRequests} :
          IF ok
          THEN page' = [StartEnhancement([page EXCEPT !.transcript = "transcript"])
                           EXCEPT !.processing = FALSE]
          ELSE page' = [page EXCEPT !.error = "Failed to transcribe audio",
                                    !.processing = FALSE]
    /\ UNCHANGED <<route, env, transcript, segments, maxTokens, chunks, pc, i,
                   enhancedChunks, calls, log, response, observer, other,
                   job, client>>

\* a click on 'Re-enhance with Claude' (rendered when transcript is set,
\* disabled={enhancing}): enhanceTranscript
EnhanceTranscript ==
    /\ page.transcript # ""
    /\ ~page.enhancing
    /\ Len(page.requests) < MaxRequests
    /\ page' = StartEnhancement(page)
    /\ UNCHANGED <<route, env, transcript, segments, maxTokens, chunks, pc, i,
                   enhancedChunks, calls, log, response, observer, other,
                   job, client>>

\* the fetch of /api/enhance of request r settles: the rest of
\* enhanceTranscriptInternal, the finally included
EnhanceSettles ==
    /\ \E r \in 1..Len(page.requests) :
          /\ page.requests[r] = "outstanding"
          /\ \E ok \in BOOLEAN :
                page' =
                    IF ok
                    THEN [page EXCEPT !.enhancedTranscript = r, !.progress = "all",
                                      !.enhancing = FALSE,
                                      !.requests[r] = "enhanced"]
                    ELSE [page EXCEPT !.error = "Failed to enhance transcript",
                                      !.enhancing = FALSE,
                                      !.requests[r] = "failed"]
    /\ UNCHANGED <<route, env, transcript, segments, maxTokens, chunks, pc, i,
                   enhancedChunks, calls, log, response, observer, other,
                   job, client>>

NextPage ==
    \/ HandleFileChange
    \/ ProcessFile
    \/ TranscribeSettles
    \/ EnhanceTranscript
    \/ EnhanceSettles

SpecPage == InitPage /\ [][NextPage]_vars

OutstandingRequests ==
    {r \in 1..Len(page.requests) : page.requests[r] = "outstanding"}

\* C30: the enhancing flag is true in every state in which an enhancement
\* request is outstanding, also one started by processFile while an earlier
\* request has not finished.
C30_EnhancingWhileOutstanding ==
    OutstandingRequests # {} => page.enhancing

=============================================================================
